---- MODULE Spec2Model ----
(***************************************************************************)
(* Book service: six request handlers (listBooks, getBook, createBook,     *)
(* updateBook, deleteBook, searchBooks) over one SQL table `book`.         *)
(*                                                                         *)
(* Text values are sequences of character codes, so that ordering, case    *)
(* folding and pattern matching are computed and not assumed.  A nullable  *)
(* column or an optional parameter is a sequence of length 0 (NULL /       *)
(* undefined) or 1 (the value).                                            *)
(***************************************************************************)
EXTENDS Integers, Sequences, FiniteSets, TLC

VARIABLES
    rows,       \* the table `book`: primary key id |-> row
    nextId,     \* how many ids gen_random_uuid() has produced so far, plus one
    now,        \* the store's clock, read by CURRENT_TIMESTAMP
    pend,       \* per caller: the handler suspended between two statements
    last,       \* the most recently completed request and its response
    deletedOk   \* ids for which a deleteBook has returned {success: true}

vars == <<rows, nextId, now, pend, last, deletedOk>>

----------------------------------------------------------------------------
(* Bounds of the model *)

\* rows ever inserted (ids ever generated)
MaxBooks == 2

\* length of a search query
MaxQueryLen == 2

----------------------------------------------------------------------------
(* Values *)

None == <<>>
Some(x) == <<x>>

\* the all-zero UUID: never produced by gen_random_uuid(), used by the tests
\* as the id of a book that does not exist
NilId == 0

\* ids a caller can present: the nil UUID and the ids returned so far
IdInputs == {NilId} \cup (1 .. (nextId - 1))

\* "a", "B"
Titles == { <<97>>, <<66>> }

\* "b", "c"
Authors == { <<98>>, <<99>> }

\* "1"
Isbns == { <<49>> }

\* ISO date texts and the calendar dates they denote
DateTexts == { "2023-01-01" }

\* the characters a search query is made of: b _ % \
QueryAlphabet == { 98, 95, 37, 92 }

Callers == { "c1", "c2" }

Idle == [op |-> "idle"]

----------------------------------------------------------------------------
(* Text *)

\* lower-case of one character code (ASCII)
LowerChar(c) == IF c >= 65 /\ c <= 90 THEN c + 32 ELSE c

Lower(s) == [i \in 1 .. Len(s) |-> LowerChar(s[i])]

\* s <= t in the store's ordering of text (code point order)
RECURSIVE TextLeq(_, _)
TextLeq(s, t) ==
    IF s = <<>> THEN TRUE
    ELSE IF t = <<>> THEN FALSE
    ELSE IF s[1] < t[1] THEN TRUE
    ELSE IF s[1] > t[1] THEN FALSE
    ELSE TextLeq(Tail(s), Tail(t))

\* SQL LIKE: % matches any run of characters, _ any one character, and a
\* backslash makes the next pattern character literal
RECURSIVE Like(_, _)
Like(s, p) ==
    IF p = <<>> THEN s = <<>>
    ELSE IF p[1] = 37 THEN
        Like(s, Tail(p)) \/ (s # <<>> /\ Like(Tail(s), p))
    ELSE IF p[1] = 92 THEN
        /\ Len(p) >= 2
        /\ s # <<>>
        /\ s[1] = p[2]
        /\ Like(Tail(s), Tail(Tail(p)))
    ELSE IF p[1] = 95 THEN
        s # <<>> /\ Like(Tail(s), Tail(p))
    ELSE
        s # <<>> /\ s[1] = p[1] /\ Like(Tail(s), Tail(p))

\* a match that regards case: LIKE in the place of ILIKE
ILike_CaseSensitive(s, p) == Like(s, p)

\* SQL ILIKE: LIKE without regard to case
ILike(s, p) == Like(Lower(s), Lower(p))

\* `%${query}%`
SearchPattern(query) == <<37>> \o query \o <<37>>

----------------------------------------------------------------------------
(* The column published_date DATE *)

\* date input: the text of a parameter to the date stored
DateIn(text) ==
    CASE text = "2023-01-01" -> <<2023, 1, 1>>
      [] text = "2024-02-29" -> <<2024, 2, 29>>

\* date output: the date stored to the text returned
DateOut(date) ==
    CASE date = <<2023, 1, 1>> -> "2023-01-01"
      [] date = <<2024, 2, 29>> -> "2024-02-29"

----------------------------------------------------------------------------
(* The store: table book and the statements the handlers send *)

\* a projection that leaves published_date without its alias, so that the
\* Book has no publishedDate
Book_NoAlias(id, row) ==
    [ id            |-> id,
      title         |-> row.title,
      author        |-> row.author,
      publishedDate |-> None,
      isbn          |-> row.isbn ]

\* SELECT id, title, author, published_date AS "publishedDate", isbn
Book(id, row) ==
    [ id            |-> id,
      title         |-> row.title,
      author        |-> row.author,
      publishedDate |-> IF row.published_date = None THEN None
                        ELSE Some(DateOut(row.published_date[1])),
      isbn          |-> row.isbn ]

\* isbn TEXT UNIQUE: a non-null isbn held by a row other than `self`
IsbnTaken(tbl, isbn, self) ==
    /\ isbn # None
    /\ \E i \in DOMAIN tbl : i # self /\ tbl[i].isbn = isbn

\* SELECT 1 FROM book WHERE id = ${id}
SelectExists(tbl, id) == id \in DOMAIN tbl

\* an INSERT into a table whose isbn column has no UNIQUE constraint
InsertStmt_NoUnique(tbl, newId, ts, vals) ==
    LET row == [ title          |-> vals.title,
                 author         |-> vals.author,
                 published_date |-> IF vals.publishedDate = None THEN None
                                    ELSE Some(DateIn(vals.publishedDate[1])),
                 isbn           |-> vals.isbn,
                 created_at     |-> ts,
                 updated_at     |-> ts ]
    IN  [ err       |-> "none",
          tbl       |-> [i \in DOMAIN tbl \cup {newId} |->
                            IF i = newId THEN row ELSE tbl[i]],
          returning |-> Some(Book(newId, row)) ]

\* INSERT INTO book (title, author, published_date, isbn) VALUES (...) RETURNING ...
InsertStmt(tbl, newId, ts, vals) ==
    IF IsbnTaken(tbl, vals.isbn, newId)
    THEN [err |-> "duplicate key", tbl |-> tbl, returning |-> None]
    ELSE LET row == [ title          |-> vals.title,
                      author         |-> vals.author,
                      published_date |-> IF vals.publishedDate = None THEN None
                                         ELSE Some(DateIn(vals.publishedDate[1])),
                      isbn           |-> vals.isbn,
                      created_at     |-> ts,
                      updated_at     |-> ts ]
         IN  [ err       |-> "none",
               tbl       |-> [i \in DOMAIN tbl \cup {newId} |->
                                 IF i = newId THEN row ELSE tbl[i]],
               returning |-> Some(Book(newId, row)) ]

\* DELETE FROM book WHERE id = ${id}
DeleteStmt(tbl, id) ==
    [ tbl          |-> [i \in DOMAIN tbl \ {id} |-> tbl[i]],
      rowsAffected |-> IF id \in DOMAIN tbl THEN 1 ELSE 0 ]

\* The statement the tagged template of updateBook produces.  Every ${...} of a
\* tagged template is sent as a bind parameter, so the text of the statement is
\*   UPDATE book SET $1 WHERE id = $2 RETURNING ...
\* with the joined update clause as the value of $1.
TaggedUpdate(updateClause, id) ==
    [ setList |-> [kind |-> "param", value |-> updateClause],
      whereId |-> id ]

\* one column of a row after SET: the assigned value, or the stored one
Assigned(asg, col, old) ==
    IF \E k \in 1 .. Len(asg) : asg[k].col = col
    THEN (CHOOSE a \in {asg[k] : k \in 1 .. Len(asg)} : a.col = col).val
    ELSE old

\* UPDATE book SET <set list> WHERE id = ... RETURNING ...
\* A set list must be written as column assignments in the statement text; a
\* bind parameter in its place is a syntax error and nothing is executed.
UpdateStmt(tbl, stmt, ts) ==
    IF stmt.setList.kind = "param"
    THEN [err |-> "syntax error", tbl |-> tbl, returning |-> None]
    ELSE LET id  == stmt.whereId
             asg == stmt.setList.value
         IN  IF id \notin DOMAIN tbl
             THEN [err |-> "none", tbl |-> tbl, returning |-> None]
             ELSE LET old == tbl[id]
                      date == Assigned(asg, "published_date", None)
                      row == [ title          |-> Assigned(asg, "title", old.title),
                               author         |-> Assigned(asg, "author", old.author),
                               published_date |->
                                   IF \E k \in 1 .. Len(asg) : asg[k].col = "published_date"
                                   THEN (IF date = None THEN None ELSE Some(DateIn(date[1])))
                                   ELSE old.published_date,
                               isbn           |-> Assigned(asg, "isbn", old.isbn),
                               created_at     |-> old.created_at,
                               updated_at     |-> ts ]
                  IN  IF IsbnTaken(tbl, row.isbn, id)
                      THEN [err |-> "duplicate key", tbl |-> tbl, returning |-> None]
                      ELSE [ err       |-> "none",
                             tbl       |-> [tbl EXCEPT ![id] = row],
                             returning |-> Some(Book(id, row)) ]

\* err.message?.includes('duplicate key')
IsDuplicateKey(err) == err = "duplicate key"

----------------------------------------------------------------------------
(* The handlers.  Each yields the response and the table it leaves. *)

Response(outcome, books, tbl) ==
    [outcome |-> outcome, books |-> books, tbl |-> tbl]

\* the permutations of a finite set, as sequences
Orderings(S) ==
    { s \in [1 .. Cardinality(S) -> S] :
        \A i, j \in 1 .. Cardinality(S) : i # j => s[i] # s[j] }

\* ORDER BY title ASC: every order of the selected rows that ascends by title
\* (the store is free in the order of rows with equal titles)
OrderByTitle(books) ==
    { s \in Orderings(books) :
        \A i \in 1 .. Len(s) - 1 : TextLeq(s[i].title, s[i + 1].title) }

\* a listBooks whose query has no ORDER BY
listBooks_Unordered(tbl) ==
    { Response("ok", s, tbl) :
        s \in Orderings({ Book(i, tbl[i]) : i \in DOMAIN tbl }) }

\* GET /books: the responses listBooks can give
listBooks(tbl) ==
    { Response("ok", s, tbl) :
        s \in OrderByTitle({ Book(i, tbl[i]) : i \in DOMAIN tbl }) }

\* GET /books/:id
getBook(tbl, id) ==
    IF ~ SelectExists(tbl, id)
    THEN Response("NotFound", <<>>, tbl)
    ELSE Response("ok", <<Book(id, tbl[id])>>, tbl)

\* a createBook whose catch block rethrows every store error as it is
createBook_NoCatch(tbl, newId, ts, params) ==
    LET r == InsertStmt(tbl, newId, ts, params)
    IN  IF r.err = "none"
        THEN IF r.returning = None
             THEN Response("Internal", <<>>, r.tbl)
             ELSE Response("ok", r.returning, r.tbl)
        ELSE Response("StoreError", <<>>, r.tbl)

\* POST /books
createBook(tbl, newId, ts, params) ==
    LET r == InsertStmt(tbl, newId, ts, params)
    IN  IF r.err = "none"
        THEN IF r.returning = None
             THEN Response("Internal", <<>>, r.tbl)
             ELSE Response("ok", r.returning, r.tbl)
        ELSE IF IsDuplicateKey(r.err)
             THEN Response("AlreadyExists", <<>>, r.tbl)
             ELSE Response("StoreError", <<>>, r.tbl)

\* the list `updates` of updateBook: one assignment per supplied field, then
\* updated_at = CURRENT_TIMESTAMP
BuildUpdates(params) ==
    (IF params.title # None
        THEN <<[col |-> "title", val |-> params.title[1]]>> ELSE <<>>)
    \o (IF params.author # None
        THEN <<[col |-> "author", val |-> params.author[1]]>> ELSE <<>>)
    \o (IF params.publishedDate # None
        THEN <<[col |-> "published_date", val |-> params.publishedDate]>> ELSE <<>>)
    \o (IF params.isbn # None
        THEN <<[col |-> "isbn", val |-> params.isbn]>> ELSE <<>>)
    \o <<[col |-> "updated_at", val |-> "CURRENT_TIMESTAMP"]>>

\* updates.length === 1 && updates[0] === "updated_at = CURRENT_TIMESTAMP"
NoFieldsSupplied(updates) ==
    Len(updates) = 1 /\ updates[1].col = "updated_at"

\* updateBook after its existence check: the try block
updateBookTry(tbl, ts, params) ==
    LET updates == BuildUpdates(params)
    IN  IF NoFieldsSupplied(updates)
        THEN Response("InvalidArgument", <<>>, tbl)
        ELSE LET r == UpdateStmt(tbl, TaggedUpdate(updates, params.id), ts)
             IN  IF r.err = "none"
                 THEN IF r.returning = None
                      THEN Response("Internal", <<>>, r.tbl)
                      ELSE Response("ok", r.returning, r.tbl)
                 ELSE IF IsDuplicateKey(r.err)
                      THEN Response("AlreadyExists", <<>>, r.tbl)
                      ELSE Response("StoreError", <<>>, r.tbl)

\* an updateBook that builds its update list before the existence check
updateBook_FieldsFirst(tbl, ts, params) ==
    IF NoFieldsSupplied(BuildUpdates(params))
    THEN Response("InvalidArgument", <<>>, tbl)
    ELSE IF ~ SelectExists(tbl, params.id)
    THEN Response("NotFound", <<>>, tbl)
    ELSE updateBookTry(tbl, ts, params)

\* PUT /books/:id
updateBook(tbl, ts, params) ==
    IF ~ SelectExists(tbl, params.id)
    THEN Response("NotFound", <<>>, tbl)
    ELSE updateBookTry(tbl, ts, params)

\* deleteBook after its DELETE statement: the re-query and the response
deleteBookRecheck(tbl, id) ==
    IF SelectExists(tbl, id)
    THEN Response("NotFound", <<>>, tbl)
    ELSE Response("ok", <<>>, tbl)

\* a deleteBook that reports success without sending its DELETE statement
deleteBook_SkipsDelete(tbl, id) ==
    Response("ok", <<>>, tbl)

\* DELETE /books/:id
deleteBook(tbl, id) ==
    deleteBookRecheck(DeleteStmt(tbl, id).tbl, id)

\* GET /books/search: the responses searchBooks can give
searchBooks(tbl, query) ==
    LET searchPattern == SearchPattern(query)
        hits == { i \in DOMAIN tbl :
                    \/ ILike(tbl[i].title, searchPattern)
                    \/ ILike(tbl[i].author, searchPattern) }
    IN  { Response("ok", s, tbl) :
            s \in OrderByTitle({ Book(i, tbl[i]) : i \in hits }) }

----------------------------------------------------------------------------
(* Requests *)

Optional(S) == {None} \cup { Some(x) : x \in S }

\* bodies of POST /books
CreateInputs ==
    [ title         : Titles,
      author        : Authors,
      publishedDate : Optional(DateTexts),
      isbn          : Optional(Isbns) ]

\* bodies of PUT /books/:id for the ids a caller can present: every subset of
\* the four fields, one value for each
UpdateInputs ==
    [ id            : IdInputs,
      title         : Optional({<<97>>}),
      author        : Optional({<<99>>}),
      publishedDate : Optional(DateTexts),
      isbn          : Optional(Isbns) ]

\* query strings of GET /books/search
Queries == UNION { [1 .. n -> QueryAlphabet] : n \in 0 .. MaxQueryLen }

\* the queries of at most one character
ShortQueries == { q \in Queries : Len(q) <= 1 }

\* the requests of specification SpecText: every title and author, no
\* publishedDate and no isbn
TextCreateInputs ==
    { p \in CreateInputs : p.publishedDate = None /\ p.isbn = None }

TextUpdateInputs ==
    { p \in UpdateInputs :
        p.author = None /\ p.publishedDate = None /\ p.isbn = None }

\* the requests of specification SpecConc: one title and author, and the
\* isbns "1" and "2"
ConcCreateInputs ==
    [ title         : { <<66>> },
      author        : { <<98>> },
      publishedDate : { None },
      isbn          : Optional(Isbns \cup { <<50>> }) ]

ConcUpdateInputs ==
    { p \in UpdateInputs : p.author = None /\ p.publishedDate = None }

\* a completed request: the handler, the id or query it was given (the nil
\* id and the empty query where it takes none), and the response
Completed(op, id, query, r) ==
    [ op      |-> op,
      id      |-> id,
      query   |-> query,
      outcome |-> r.outcome,
      books   |-> r.books ]

----------------------------------------------------------------------------
(* Specification Spec: every request is handled to completion before the   *)
(* next one starts.                                                        *)

Init ==
    /\ rows = <<>>
    /\ nextId = 1
    /\ now = 1
    /\ pend = [c \in Callers |-> Idle]
    /\ last = [ op |-> "none", id |-> NilId, query |-> <<>>,
                outcome |-> "none", books |-> <<>> ]
    /\ deletedOk = {}

ListBooks ==
    /\ \E r \in listBooks(rows) :
           last' = Completed("listBooks", NilId, <<>>, r)
    /\ UNCHANGED <<rows, nextId, now, pend, deletedOk>>

GetBook ==
    /\ \E id \in IdInputs :
           last' = Completed("getBook", id, <<>>, getBook(rows, id))
    /\ UNCHANGED <<rows, nextId, now, pend, deletedOk>>

\* gen_random_uuid() yields an id never produced before; the clock advances
\* with every row inserted
CreateBookOf(inputs) ==
    /\ nextId <= MaxBooks
    /\ \E params \in inputs :
           LET r == createBook(rows, nextId, now, params)
           IN  /\ rows' = r.tbl
               /\ nextId' = IF r.outcome = "ok" THEN nextId + 1 ELSE nextId
               /\ now' = IF r.outcome = "ok" THEN now + 1 ELSE now
               /\ last' = Completed("createBook", NilId, <<>>, r)
    /\ UNCHANGED <<pend, deletedOk>>

CreateBook == CreateBookOf(CreateInputs)

UpdateBookOf(inputs) ==
    /\ \E params \in inputs :
           LET r == updateBook(rows, now, params)
           IN  /\ rows' = r.tbl
               /\ last' = Completed("updateBook", params.id, <<>>, r)
    /\ UNCHANGED <<nextId, now, pend, deletedOk>>

UpdateBook == UpdateBookOf(UpdateInputs)

DeleteBook ==
    /\ \E id \in IdInputs :
           LET r == deleteBook(rows, id)
           IN  /\ rows' = r.tbl
               /\ deletedOk' = IF r.outcome = "ok"
                               THEN deletedOk \cup {id} ELSE deletedOk
               /\ last' = Completed("deleteBook", id, <<>>, r)
    /\ UNCHANGED <<nextId, now, pend>>

SearchBooksOf(queries) ==
    /\ \E query \in queries :
           \E r \in searchBooks(rows, query) :
               last' = Completed("searchBooks", NilId, query, r)
    /\ UNCHANGED <<rows, nextId, now, pend, deletedOk>>

ShortSearchBooks == SearchBooksOf(ShortQueries)

Next ==
    \/ ListBooks
    \/ GetBook
    \/ CreateBook
    \/ UpdateBook
    \/ DeleteBook
    \/ ShortSearchBooks

Spec == Init /\ [][Next]_vars

----------------------------------------------------------------------------
(* Specification SpecText: the same handlers, with requests that vary the  *)
(* text fields only and every query string.                                *)

TextCreateBook == CreateBookOf(TextCreateInputs)

TextUpdateBook == UpdateBookOf(TextUpdateInputs)

SearchBooks == SearchBooksOf(Queries)

NextText ==
    \/ ListBooks
    \/ GetBook
    \/ TextCreateBook
    \/ TextUpdateBook
    \/ DeleteBook
    \/ SearchBooks

SpecText == Init /\ [][NextText]_vars

----------------------------------------------------------------------------
(* Specification SpecConc: requests of two callers interleave statement by *)
(* statement.  Each statement is atomic in the store; the handler code     *)
(* after a statement runs with it.                                         *)

ConcCreateBook == CreateBookOf(ConcCreateInputs)

\* updateBook up to the end of its existence check; with no row, or with no
\* field supplied, the handler ends here without another statement
UpdateBookSelect(c) ==
    /\ pend[c] = Idle
    /\ \E params \in ConcUpdateInputs :
           IF ~ SelectExists(rows, params.id) \/ NoFieldsSupplied(BuildUpdates(params))
           THEN /\ last' = Completed("updateBook", params.id, <<>>,
                                      updateBook(rows, now, params))
                /\ pend' = pend
           ELSE /\ pend' = [pend EXCEPT ![c] = [op |-> "updateBook", params |-> params]]
                /\ last' = last
    /\ UNCHANGED <<rows, nextId, now, deletedOk>>

\* updateBook from its UPDATE statement on
UpdateBookUpdate(c) ==
    /\ pend[c].op = "updateBook"
    /\ LET r == updateBookTry(rows, now, pend[c].params)
       IN  /\ rows' = r.tbl
           /\ last' = Completed("updateBook", pend[c].params.id, <<>>, r)
    /\ pend' = [pend EXCEPT ![c] = Idle]
    /\ UNCHANGED <<nextId, now, deletedOk>>

\* deleteBook: its DELETE statement
DeleteBookDelete(c) ==
    /\ pend[c] = Idle
    /\ \E id \in IdInputs :
           LET d == DeleteStmt(rows, id)
           IN  /\ rows' = d.tbl
               /\ pend' = [pend EXCEPT ![c] =
                              [op |-> "deleteBook", id |-> id,
                               rowsAffected |-> d.rowsAffected]]
    /\ UNCHANGED <<nextId, now, last, deletedOk>>

\* deleteBook: its re-query and response
DeleteBookSelect(c) ==
    /\ pend[c].op = "deleteBook"
    /\ LET r == deleteBookRecheck(rows, pend[c].id)
       IN  /\ rows' = r.tbl
           /\ deletedOk' = IF r.outcome = "ok"
                           THEN deletedOk \cup {pend[c].id} ELSE deletedOk
           /\ last' = Completed("deleteBook", pend[c].id, <<>>, r)
    /\ pend' = [pend EXCEPT ![c] = Idle]
    /\ UNCHANGED <<nextId, now>>

NextConc ==
    \/ ConcCreateBook
    \/ GetBook
    \/ \E c \in Callers : UpdateBookSelect(c)
    \/ \E c \in Callers : UpdateBookUpdate(c)
    \/ \E c \in Callers : DeleteBookDelete(c)
    \/ \E c \in Callers : DeleteBookSelect(c)

SpecConc == Init /\ [][NextConc]_vars

----------------------------------------------------------------------------
(* Properties *)

Fields == {"title", "author", "publishedDate", "isbn"}

\* the fields a request body supplies
Supplied(params) == { f \in Fields : params[f] # None }

\* the value a row stores for a field of a request body
Stored(row, f) ==
    CASE f = "title"         -> Some(row.title)
      [] f = "author"        -> Some(row.author)
      [] f = "publishedDate" -> IF row.published_date = None THEN None
                                ELSE Some(DateOut(row.published_date[1]))
      [] f = "isbn"          -> row.isbn

\* the value the body of an updateBook gives for a field: every field of it
\* is optional
Given(params, f) == params[f]

\* C1: whenever deleteBook completes for an id that no row had, its response
\* is NotFound (so a second deleteBook of an id never reports success).
C1_DeleteMissingIsNotFound ==
    [][ (last'.op = "deleteBook" /\ last'.id \notin DOMAIN rows)
            => last'.outcome = "NotFound" ]_vars

\* C2: updateBook of an existing row with a non-empty set F of supplied fields
\* (and no isbn of another row) succeeds, sets exactly the fields of F to the
\* supplied values, refreshes updated_at, leaves the other fields, the id and
\* the other rows as stored, and returns the row as updated.
C2_UpdateSetsSuppliedFields ==
    \A params \in UpdateInputs :
        LET id == params.id
            r  == updateBook(rows, now, params)
        IN  ( /\ id \in DOMAIN rows
              /\ Supplied(params) # {}
              /\ ~ \E j \in DOMAIN rows :
                     j # id /\ params.isbn # None /\ rows[j].isbn = params.isbn )
            => /\ r.outcome = "ok"
               /\ DOMAIN r.tbl = DOMAIN rows
               /\ \A j \in DOMAIN rows \ {id} : r.tbl[j] = rows[j]
               /\ \A f \in Supplied(params) : Stored(r.tbl[id], f) = Given(params, f)
               /\ \A f \in Fields \ Supplied(params) :
                      Stored(r.tbl[id], f) = Stored(rows[id], f)
               /\ r.tbl[id].updated_at = now
               /\ r.books = <<Book(id, r.tbl[id])>>

\* C3: no two distinct rows have the same non-null isbn, in every state that
\* interleaved createBook, updateBook and deleteBook requests reach.
C3_IsbnUnique ==
    \A i, j \in DOMAIN rows :
        (i # j /\ rows[i].isbn # None) => rows[i].isbn # rows[j].isbn

\* two rows with different isbns, and a request in flight that would give one
\* of them the isbn of the other
C3_Witness ==
    /\ \E i, j \in DOMAIN rows :
           /\ i # j
           /\ rows[i].isbn = Some(<<49>>)
           /\ rows[j].isbn = Some(<<50>>)
           /\ \E c \in Callers :
                  /\ pend[c].op = "updateBook"
                  /\ pend[c].params.id = j
                  /\ pend[c].params.isbn = Some(<<49>>)

\* C4: createBook with the non-null isbn of an existing row fails with
\* AlreadyExists and leaves the table as it is; createBook with no isbn
\* succeeds and adds one row, whatever rows without isbn there are.
C4_CreateIsbnCollision ==
    \A params \in CreateInputs :
        LET r == createBook(rows, nextId, now, params)
        IN  /\ ( /\ params.isbn # None
                 /\ \E i \in DOMAIN rows : rows[i].isbn = params.isbn )
               => (r.outcome = "AlreadyExists" /\ r.tbl = rows)
            /\ params.isbn = None
               => /\ r.outcome = "ok"
                  /\ DOMAIN r.tbl = DOMAIN rows \cup {nextId}
                  /\ nextId \notin DOMAIN rows
                  /\ \A i \in DOMAIN rows : r.tbl[i] = rows[i]
                  /\ r.tbl[nextId].isbn = None

\* a createBook was refused for the isbn of a row of the table
C4_Witness ==
    /\ last.op = "createBook"
    /\ last.outcome = "AlreadyExists"
    /\ \E i \in DOMAIN rows : rows[i].isbn # None

\* C5: updateBook of an id without row fails with NotFound whatever fields are
\* supplied; it fails with InvalidArgument exactly when the row exists and no
\* field is supplied; both failures leave the table as it is.
C5_UpdateFailureOrder ==
    \A params \in UpdateInputs :
        LET r == updateBook(rows, now, params)
        IN  /\ params.id \notin DOMAIN rows => r.outcome = "NotFound"
            /\ r.outcome = "InvalidArgument"
                   <=> (params.id \in DOMAIN rows /\ Supplied(params) = {})
            /\ r.outcome \in {"NotFound", "InvalidArgument"} => r.tbl = rows

\* an updateBook without fields was refused for a row that exists
C5_Witness ==
    /\ last.op = "updateBook"
    /\ last.outcome = "InvalidArgument"
    /\ last.id \in DOMAIN rows
    /\ rows[last.id].updated_at < now

\* C6: updateBook that supplies a non-null isbn for an existing row fails with
\* AlreadyExists exactly when another row has that isbn, and then leaves the
\* table as it is; supplying the row's own isbn succeeds.
C6_UpdateIsbnCollision ==
    \A params \in UpdateInputs :
        LET id    == params.id
            r     == updateBook(rows, now, params)
            taken == \E j \in DOMAIN rows : j # id /\ rows[j].isbn = params.isbn
        IN  (id \in DOMAIN rows /\ params.isbn # None)
            => /\ r.outcome = "AlreadyExists" <=> taken
               /\ taken => r.tbl = rows
               /\ rows[id].isbn = params.isbn => r.outcome = "ok"

\* the ids ever returned by createBook for which no deleteBook has succeeded
Live == (1 .. (nextId - 1)) \ deletedOk

IdsOf(books) == { books[k].id : k \in 1 .. Len(books) }

AscendingByTitle(books) ==
    \A i, j \in 1 .. Len(books) :
        i < j => TextLeq(books[i].title, books[j].title)

\* C7: listBooks answers, without error, with every Book created and not
\* deleted exactly once and no other, in ascending order of title; with no such
\* Book its answer is the empty sequence.
C7_ListBooksComplete ==
    /\ listBooks(rows) # {}
    /\ \A r \in listBooks(rows) :
           /\ r.outcome = "ok"
           /\ IdsOf(r.books) = Live
           /\ Len(r.books) = Cardinality(Live)
           /\ AscendingByTitle(r.books)
           /\ Live = {} => r.books = <<>>

\* listBooks answered with two Books of different titles
C7_Witness ==
    /\ last.op = "listBooks"
    /\ Len(last.books) = 2
    /\ last.books[1].title # last.books[2].title

\* a field of a Book, and the value the body of a createBook gives for it:
\* title and author are required, publishedDate and isbn optional
BookField(book, f) ==
    IF f \in {"title", "author"} THEN Some(book[f]) ELSE book[f]

CreateGiven(params, f) ==
    IF f \in {"title", "author"} THEN Some(params[f]) ELSE params[f]

C9_DeletionPermanent ==
    \A id \in deletedOk :
        /\ getBook(rows, id).outcome = "NotFound"
        /\ \A r \in listBooks(rows) : id \notin IdsOf(r.books)
        /\ \A query \in Queries :
               \A r \in searchBooks(rows, query) : id \notin IdsOf(r.books)
        /\ \A params \in CreateInputs :
               LET r == createBook(rows, nextId, now, params)
               IN  id \notin DOMAIN r.tbl /\ id \notin IdsOf(r.books)
        /\ \A params \in UpdateInputs :
               id \notin DOMAIN updateBook(rows, now, params).tbl

\* getBook failed with NotFound for a Book that had been created and deleted,
\* with a Book created afterwards in the table
C9_Witness ==
    /\ last.op = "getBook"
    /\ last.outcome = "NotFound"
    /\ last.id \in deletedOk
    /\ last.id # NilId
    /\ \E i \in DOMAIN rows : i > last.id

\* text s holds text q as a substring
Contains(s, q) ==
    \E k \in 0 .. (Len(s) - Len(q)) :
        \A i \in 1 .. Len(q) : s[k + i] = q[i]

\* the row holds the query in its title or author, without regard to case
HoldsQuery(row, query) ==
    \/ Contains(Lower(row.title), Lower(query))
    \/ Contains(Lower(row.author), Lower(query))

\* searchBooks answers the query, without error, with exactly the Books that
\* hold it, in ascending order of title
ExactAnswer(query) ==
    /\ searchBooks(rows, query) # {}
    /\ \A r \in searchBooks(rows, query) :
           /\ r.outcome = "ok"
           /\ IdsOf(r.books) = { i \in DOMAIN rows : HoldsQuery(rows[i], query) }
           /\ Len(r.books) = Cardinality(IdsOf(r.books))
           /\ \A k \in 1 .. Len(r.books) :
                  r.books[k] = Book(r.books[k].id, rows[r.books[k].id])
           /\ AscendingByTitle(r.books)

\* C10 as claimed: for every query string, searchBooks returns exactly the
\* Books whose title or author holds the query as a substring without regard
\* to case, in ascending order of title.
C10_SearchExactAnyQuery ==
    \A query \in Queries : ExactAnswer(query)

\* the characters with a meaning of their own in a LIKE pattern: % _ \
PatternChars == { 37, 95, 92 }

\* C10 as amended: for every query string without %, _ and \, searchBooks
\* returns exactly the Books whose title or author holds the query as a
\* substring without regard to case, in ascending order of title.
C10_SearchExactPlainQuery ==
    \A query \in Queries :
        (\A k \in 1 .. Len(query) : query[k] \notin PatternChars)
            => ExactAnswer(query)

\* searchBooks("b") answered with a Book titled "B" whose author is not "b"
\* and left out another Book
C10_Witness ==
    /\ last.op = "searchBooks"
    /\ last.query = <<98>>
    /\ \E k \in 1 .. Len(last.books) :
           last.books[k].title = <<66>> /\ last.books[k].author = <<99>>
    /\ Len(last.books) < Cardinality(DOMAIN rows)

\* caller c is inside updateBook, past its existence check, and the row of
\* the id has been removed since by a deleteBook
RaceLost(c) ==
    /\ pend[c].op = "updateBook"
    /\ pend[c].params.id \notin DOMAIN rows

\* C11: when a deleteBook removes the row after updateBook has passed its
\* existence check and before its UPDATE statement runs, updateBook returns no
\* Book and does not recreate the row, it fails with Internal and not with
\* NotFound, and the store ends with no row for the id.
C11_UpdateDeleteRace ==
    [][ \A c \in Callers :
          (RaceLost(c) /\ UpdateBookUpdate(c))
              => /\ last'.op = "updateBook"
                 /\ last'.books = <<>>
                 /\ last'.outcome = "Internal"
                 /\ pend[c].params.id \notin DOMAIN rows' ]_vars

\* what the race does leave true: updateBook fails, with neither a Book nor
\* NotFound, and the store ends with no row for the id
C11_RaceFailsWithoutRow ==
    [][ \A c \in Callers :
          (RaceLost(c) /\ UpdateBookUpdate(c))
              => /\ last'.op = "updateBook"
                 /\ last'.books = <<>>
                 /\ last'.outcome \notin { "ok", "NotFound" }
                 /\ pend[c].params.id \notin DOMAIN rows' ]_vars

====
